---------------------------- MODULE Spec2Model ----------------------------
(***************************************************************************)
(* A model of the CircleGame orchestrator and of its shape analyzer        *)
(* (calculateCircularity) of new-Aircanvas.                                *)
(*                                                                         *)
(* Pixel coordinates are integers.  The analyzer's real-valued quantities  *)
(* (radii, standard deviation, distances, closurePercent) are carried in   *)
(* fixed point, as a whole number of 1/RES pixels (or of 1/RES percent),   *)
(* every operation rounding as noted at its definition.  The sector of a   *)
(* point and the occupancy threshold are computed exactly.  A score of the *)
(* model can differ by one from the IEEE double result where a ratio falls *)
(* within 1/RES of a rounding boundary.                                    *)
(*                                                                         *)
(* The canvas pixels, the hand visualizer, the camera preview and the      *)
(* gesture detector are outside the model: a frame is the pair of the      *)
(* detected gesture and the index fingertip, or no hand.                   *)
(***************************************************************************)
EXTENDS Integers, Sequences, FiniteSets, TLC

(***************************************************************************)
(* Bounds of the model                                                     *)
(***************************************************************************)
RES == 1024          \* fixed-point resolution: units per pixel
GridMax == 2         \* short analyzer inputs use the grid 0..GridMax squared
MaxLen == 3          \* longest exhaustive analyzer input over the grid
MaxSpokes == 24      \* longest analyzer input drawn around the spokes
PatternPeriod == 3   \* period of the inner/outer pattern of such an input
MaxPoints == 16      \* longest stroke buffer the controller model builds
MaxLaps == 2         \* most laps of an analyzer input drawn around the ring
UnitRadius == 100    \* average radius of the measures scored directly
MaxGap == 120        \* largest start-end distance of those measures

(***************************************************************************)
(* Program constants                                                       *)
(***************************************************************************)
minPointsForCircle == 15
MIN_POINT_DISTANCE == 2
numSectors == 12

Point(x, y) == [x |-> x, y |-> y]

(***************************************************************************)
(* Arithmetic helpers                                                      *)
(***************************************************************************)
RES2 == RES * RES

\* Mutant of Max: the clamp at 0 is forgotten.
Max_NoClamp(a, b) == b

Max(a, b) == IF a >= b THEN a ELSE b

RECURSIVE SqrtIter(_, _)
SqrtIter(n, x) ==
    LET y == (x + n \div x) \div 2
    IN  IF y >= x THEN x ELSE SqrtIter(n, y)

\* Math.sqrt on a whole number, rounded to the nearest whole number.
Sqrt(n) ==
    IF n <= 0 THEN 0
    ELSE LET s == SqrtIter(n, n)
         IN  IF n - s * s > s THEN s + 1 ELSE s

\* Math.round(a / b) for a >= 0, b > 0: floor(a/b + 1/2).
Round(a, b) == (2 * a + b) \div (2 * b)

RECURSIVE SumSeq(_)
SumSeq(s) == IF s = <<>> THEN 0 ELSE Head(s) + SumSeq(Tail(s))

\* Squared distance between two points (whole pixels squared).
Dist2(p, q) == (p.x - q.x) * (p.x - q.x) + (p.y - q.y) * (p.y - q.y)

(***************************************************************************)
(* calculateCircularity, step by step                                      *)
(***************************************************************************)

\* Radius of a point about the centroid (sumX/n, sumY/n), in 1/RES pixels:
\* sqrt((x - sumX/n)^2 + (y - sumY/n)^2).
Radius(p, sumX, sumY, n) ==
    LET dx == n * p.x - sumX
        dy == n * p.y - sumY
        q  == dx * dx + dy * dy
        n2 == n * n
        a  == (q % n2) * RES
    IN  Sqrt((q \div n2) * RES2 + (a \div n2) * RES + ((a % n2) * RES) \div n2)

\* floor(normalizedAngle / (2 pi) * numSectors) % numSectors for the angle
\* atan2(dy, dx) normalized to [0, 2 pi): 30-degree sectors, decided by
\* comparing dy/dx with tan 30 = 1/sqrt 3 and tan 60 = sqrt 3.
SectorIndex(dx, dy) ==
    LET lt30 == 3 * dy * dy < dx * dx
        lt60 == dy * dy < 3 * dx * dx
        k == IF dy = 0 THEN (IF dx >= 0 THEN 0 ELSE 6)
             ELSE IF dy > 0
                  THEN IF dx > 0 THEN (IF lt30 THEN 0 ELSE IF lt60 THEN 1 ELSE 2)
                       ELSE IF dx = 0 THEN 3
                       ELSE (IF lt30 THEN 5 ELSE IF lt60 THEN 4 ELSE 3)
                  ELSE IF dx < 0 THEN (IF lt30 THEN 6 ELSE IF lt60 THEN 7 ELSE 8)
                       ELSE IF dx = 0 THEN 9
                       ELSE (IF lt30 THEN 11 ELSE IF lt60 THEN 10 ELSE 9)
    IN  k % numSectors

\* Mutant of SectorsWithPoints: a sector counts from 10% of the points on.
SectorsWithPoints_TenPercent(points, sumX, sumY) ==
    LET n == Len(points)
        sectorOf(i) == SectorIndex(n * points[i].x - sumX, n * points[i].y - sumY)
        sectorCounts(s) == Cardinality({i \in 1..n : sectorOf(i) = s})
    IN  Cardinality({s \in 0..(numSectors - 1) : 100 * sectorCounts(s) >= 10 * n})

\* Number of sectors holding at least 5% of the points.
SectorsWithPoints(points, sumX, sumY) ==
    LET n == Len(points)
        sectorOf(i) == SectorIndex(n * points[i].x - sumX, n * points[i].y - sumY)
        sectorCounts(s) == Cardinality({i \in 1..n : sectorOf(i) = s})
    IN  Cardinality({s \in 0..(numSectors - 1) : 100 * sectorCounts(s) >= 5 * n})

\* Mutant of ShapeName: the Triangle row is tried before the Square row.
ShapeName_TriangleFirst(isCircle, sectorsWithPoints, angularScore, radiusPercent) ==
    IF isCircle THEN "Circle"
    ELSE IF sectorsWithPoints <= 3 /\ radiusPercent >= 35 THEN "Triangle"
    ELSE IF sectorsWithPoints <= 4 /\ radiusPercent >= 40 THEN "Square"
    ELSE IF angularScore >= 60 /\ radiusPercent < 45 THEN "Oval/Ellipse"
    ELSE IF angularScore >= 50 /\ radiusPercent < 40 THEN "Rectangle"
    ELSE IF angularScore < 40 THEN "Polygon"
    ELSE "Irregular Shape"

\* The shape classification chain.
ShapeName(isCircle, sectorsWithPoints, angularScore, radiusPercent) ==
    IF isCircle THEN "Circle"
    ELSE IF sectorsWithPoints <= 4 /\ radiusPercent >= 40 THEN "Square"
    ELSE IF sectorsWithPoints <= 3 /\ radiusPercent >= 35 THEN "Triangle"
    ELSE IF angularScore >= 60 /\ radiusPercent < 45 THEN "Oval/Ellipse"
    ELSE IF angularScore >= 50 /\ radiusPercent < 40 THEN "Rectangle"
    ELSE IF angularScore < 40 THEN "Polygon"
    ELSE "Irregular Shape"

\* `Not a circle! This looks more like a ${shapeName}`
NotACircle(shapeName) ==
    CASE shapeName = "Square" -> "Not a circle! This looks more like a Square"
      [] shapeName = "Triangle" -> "Not a circle! This looks more like a Triangle"
      [] shapeName = "Oval/Ellipse" -> "Not a circle! This looks more like a Oval/Ellipse"
      [] shapeName = "Rectangle" -> "Not a circle! This looks more like a Rectangle"
      [] shapeName = "Polygon" -> "Not a circle! This looks more like a Polygon"
      [] shapeName = "Irregular Shape" -> "Not a circle! This looks more like a Irregular Shape"
      [] shapeName = "Circle" -> "Not a circle! This looks more like a Circle"
      [] OTHER -> "Not a circle! This looks more like a Unknown"

\* Mutant of Feedback: the score bands are tried first, for any stroke.
Feedback_BandsFirst(isClosed, isCircle, combinedScore, shapeName) ==
    IF combinedScore >= 90 THEN "PERFECT CIRCLE!"
    ELSE IF combinedScore >= 80 THEN "Excellent!"
    ELSE IF combinedScore >= 70 THEN "Good Circle"
    ELSE IF combinedScore >= 60 THEN "Not bad!"
    ELSE IF ~isClosed THEN "Close your shape to make a circle!"
    ELSE IF ~isCircle THEN NotACircle(shapeName)
    ELSE IF combinedScore >= 50 THEN "Try to make it more circular"
    ELSE "Keep practicing!"

\* The feedback chain.
Feedback(isClosed, isCircle, combinedScore, shapeName) ==
    IF ~isClosed THEN "Close your shape to make a circle!"
    ELSE IF ~isCircle THEN NotACircle(shapeName)
    ELSE IF combinedScore >= 90 /\ isCircle THEN "PERFECT CIRCLE!"
    ELSE IF combinedScore >= 80 /\ isCircle THEN "Excellent!"
    ELSE IF combinedScore >= 70 /\ isCircle THEN "Good Circle"
    ELSE IF combinedScore >= 60 /\ isCircle THEN "Not bad!"
    ELSE IF combinedScore >= 50 THEN "Try to make it more circular"
    ELSE "Keep practicing!"

\* radiusConsistency as a whole percent: Math.round(Math.max(0, 1 - stdDev /
\* avgRadius) * 100), and 0 when avgRadius is 0.
RadiusPercent(avgRadius, stdDev) ==
    IF avgRadius > 0
    THEN Round(100 * Max(0, avgRadius - stdDev), avgRadius)
    ELSE 0

\* Math.round((sectorsWithPoints / numSectors) * 100)
AngularScore(sectorsWithPoints) == Round(sectorsWithPoints * 100, numSectors)

\* Mutant of IsClosed: <= in place of <.
IsClosed_OrEqual(distanceStartEnd, avgRadius) == 10 * distanceStartEnd <= 4 * avgRadius

\* distanceStartEnd < avgRadius * 0.4
IsClosed(distanceStartEnd, avgRadius) == 10 * distanceStartEnd < 4 * avgRadius

\* Math.max(0, 100 - (distanceStartEnd / avgRadius) * 100), and 0 when avgRadius
\* is 0; in 1/RES percent.
ClosurePercent(distanceStartEnd, avgRadius) ==
    IF avgRadius > 0
    THEN Max(0, 100 * RES - (100 * RES * distanceStartEnd) \div avgRadius)
    ELSE 0

\* Mutant of CombinedScore: the closure term counts the gap, not the closure.
CombinedScore_GapCounts(angularScore, radiusPercent, closurePercent) ==
    Round(5 * angularScore * RES + 3 * radiusPercent * RES
          + 2 * (100 * RES - closurePercent), 10 * RES)

\* Math.round(angularScore * 0.5 + radiusPercent * 0.3 + closurePercent * 0.2),
\* closurePercent being in 1/RES percent.
CombinedScore(angularScore, radiusPercent, closurePercent) ==
    Round(5 * angularScore * RES + 3 * radiusPercent * RES + 2 * closurePercent, 10 * RES)

\* The locals of a call that returned before computing anything.
NoLocals ==
    [avgRadius |-> -1, stdDev |-> -1, radiusPercent |-> -1, sectorsWithPoints |-> -1,
     angularScore |-> -1, distanceStartEnd |-> -1, isClosed |-> FALSE,
     closurePercent |-> -1, combinedScore |-> -1]

\* The scores the analyzer derives from the measures of a stroke: its average
\* radius, the standard deviation of its radii, its occupied sectors and the
\* distance from its first point to its last.
Derived(avgRadius, stdDev, sectorsWithPoints, distanceStartEnd) ==
    [avgRadius |-> avgRadius, stdDev |-> stdDev,
     radiusPercent |-> RadiusPercent(avgRadius, stdDev),
     sectorsWithPoints |-> sectorsWithPoints,
     angularScore |-> AngularScore(sectorsWithPoints),
     distanceStartEnd |-> distanceStartEnd,
     isClosed |-> IsClosed(distanceStartEnd, avgRadius),
     closurePercent |-> ClosurePercent(distanceStartEnd, avgRadius),
     combinedScore |-> CombinedScore(AngularScore(sectorsWithPoints),
                                     RadiusPercent(avgRadius, stdDev),
                                     ClosurePercent(distanceStartEnd, avgRadius))]

\* The features the analyzer computes for two or more points.
Features(points) ==
    LET n == Len(points)
        sumX == SumSeq([i \in 1..n |-> points[i].x])
        sumY == SumSeq([i \in 1..n |-> points[i].y])
        radii == [i \in 1..n |-> Radius(points[i], sumX, sumY, n)]
        avgRadius == Round(SumSeq(radii), n)
        variance == Round(SumSeq([i \in 1..n |->
                        (radii[i] - avgRadius) * (radii[i] - avgRadius)]), n)
        stdDev == Sqrt(variance)
    IN  Derived(avgRadius, stdDev, SectorsWithPoints(points, sumX, sumY),
                Sqrt(Dist2(points[n], points[1]) * RES2))

\* Mutant of IsCircle: the closure gate is dropped.
IsCircle_NoClosureGate(f) == f.angularScore >= 75 /\ f.radiusPercent >= 50

\* Mutant of IsCircle: the angular gate is at 50.
IsCircle_LowAngularGate(f) == f.angularScore >= 50 /\ f.radiusPercent >= 50 /\ f.isClosed

\* The circle decision on the features.
IsCircle(f) == f.angularScore >= 75 /\ f.radiusPercent >= 50 /\ f.isClosed

\* The CircleScore returned for the features f; the field locals keeps the
\* values of the call's local variables with it.
Score(f) ==
    [locals |-> f,
     circularity |-> f.combinedScore,
     isCircle |-> IsCircle(f),
     feedback |-> Feedback(f.isClosed, IsCircle(f), f.combinedScore,
                           ShapeName(IsCircle(f), f.sectorsWithPoints, f.angularScore,
                                     f.radiusPercent)),
     shapeName |-> ShapeName(IsCircle(f), f.sectorsWithPoints, f.angularScore,
                             f.radiusPercent)]

\* Mutant of calculateCircularity: the degenerate guard is off by one.
calculateCircularity_GuardOffByOne(points) ==
    IF Len(points) < 1
    THEN [locals |-> NoLocals, circularity |-> 0, isCircle |-> FALSE,
          feedback |-> "Draw a bigger circle!", shapeName |-> "Unknown"]
    ELSE Score(Features(points))

calculateCircularity(points) ==
    IF Len(points) < 2
    THEN [locals |-> NoLocals, circularity |-> 0, isCircle |-> FALSE,
          feedback |-> "Draw a bigger circle!", shapeName |-> "Unknown"]
    ELSE Score(Features(points))

(***************************************************************************)
(* State of the CircleGame object and of the page it writes to             *)
(***************************************************************************)
VARIABLES
    isPlaying,          \* this.isPlaying
    drawingPoints,      \* this.drawingPoints: the stroke buffer
    isDrawing,          \* this.isDrawing
    lastAccuracy,       \* this.lastAccuracy
    currentLandmarks,   \* this.currentLandmarks: NoHand, or the gesture and fingertip
    lastGestureState,   \* this.lastGestureState?.current: "null", "draw" or "none"
    accuracyDisplay,    \* number shown by the accuracy element
    feedbackDisplay,    \* text of the feedback element
    feedbackVisible,    \* the feedback element carries the class 'visible'
    menuVisible,        \* the menu does not carry the class 'hidden'
    console,            \* what the last handler wrote with console.log
    threw,              \* the last handler ended in a TypeError
    points,             \* argument of the analyzer call of the last handler
    result              \* value that call returned, NoResult when none was made

vars == <<isPlaying, drawingPoints, isDrawing, lastAccuracy, currentLandmarks,
          lastGestureState, accuracyDisplay, feedbackDisplay, feedbackVisible,
          menuVisible, console, threw, points, result>>

NoResult ==
    [locals |-> NoLocals, circularity |-> -1, isCircle |-> FALSE, feedback |-> "",
     shapeName |-> ""]

NoHand == [gesture |-> "null", tip |-> Point(-1, -1)]

Gestures == {"draw", "none"}

\* The object as a record, so that a method is an operator from record to record.
This ==
    [isPlaying |-> isPlaying, drawingPoints |-> drawingPoints, isDrawing |-> isDrawing,
     lastAccuracy |-> lastAccuracy, currentLandmarks |-> currentLandmarks,
     lastGestureState |-> lastGestureState, accuracyDisplay |-> accuracyDisplay,
     feedbackDisplay |-> feedbackDisplay, feedbackVisible |-> feedbackVisible,
     menuVisible |-> menuVisible, console |-> <<>>, threw |-> FALSE,
     points |-> <<>>, result |-> NoResult]

Become(t) ==
    /\ isPlaying' = t.isPlaying
    /\ drawingPoints' = t.drawingPoints
    /\ isDrawing' = t.isDrawing
    /\ lastAccuracy' = t.lastAccuracy
    /\ currentLandmarks' = t.currentLandmarks
    /\ lastGestureState' = t.lastGestureState
    /\ accuracyDisplay' = t.accuracyDisplay
    /\ feedbackDisplay' = t.feedbackDisplay
    /\ feedbackVisible' = t.feedbackVisible
    /\ menuVisible' = t.menuVisible
    /\ console' = t.console
    /\ threw' = t.threw
    /\ points' = t.points
    /\ result' = t.result

(***************************************************************************)
(* Methods of CircleGame                                                   *)
(***************************************************************************)
showFeedback(t, message) ==
    [t EXCEPT !.feedbackDisplay = message, !.feedbackVisible = TRUE]

hideFeedback(t) == [t EXCEPT !.feedbackVisible = FALSE]

updateAccuracyDisplay(t, accuracy) == [t EXCEPT !.accuracyDisplay = accuracy]

\* A call of calculateCircularity on the buffer, recorded with its result.
Analyze(t) ==
    [t EXCEPT !.points = t.drawingPoints,
              !.result = calculateCircularity(t.drawingPoints)]

startDrawing(t, position) ==
    IF ~t.isPlaying THEN t
    ELSE [t EXCEPT !.isDrawing = TRUE, !.drawingPoints = <<position>>]

\* Mutant of continueDrawing: every candidate is appended.
continueDrawing_NoGate(t, position) ==
    IF ~t.isDrawing THEN t
    ELSE IF t.drawingPoints = <<>>
         THEN [t EXCEPT !.threw = TRUE]
         ELSE [t EXCEPT !.drawingPoints = Append(@, position)]

continueDrawing(t, position) ==
    IF ~t.isDrawing THEN t
    ELSE IF t.drawingPoints = <<>>
         THEN [t EXCEPT !.threw = TRUE]      \* lastPoint is undefined: lastPoint.x throws
         ELSE LET lastPoint == t.drawingPoints[Len(t.drawingPoints)]
              IN  IF Dist2(position, lastPoint) >= MIN_POINT_DISTANCE * MIN_POINT_DISTANCE
                  THEN [t EXCEPT !.drawingPoints = Append(@, position)]
                  ELSE t

\* finishDrawing once the analyzer has returned: the result is logged, kept
\* as lastAccuracy, displayed, and its feedback shown.
ShowFinalResult(t) ==
    showFeedback(
        updateAccuracyDisplay(
            [t EXCEPT !.console = @ \o <<"Result:", "Showing feedback:">>,
                      !.lastAccuracy = t.result.circularity],
            t.result.circularity),
        t.result.feedback)

finishDrawing(t) ==
    IF ~t.isDrawing THEN t
    ELSE IF Len(t.drawingPoints) >= minPointsForCircle
         THEN ShowFinalResult(Analyze(
                  [t EXCEPT !.isDrawing = FALSE,
                            !.console = Append(@, "Drawing finished. Points:")]))
         ELSE showFeedback(
                  [t EXCEPT !.isDrawing = FALSE,
                            !.console = @ \o <<"Drawing finished. Points:",
                                               "Not enough points. Need:">>],
                  "Draw a bigger shape!")

handleGesture(t, state, indexTip) ==
    LET isDrawingGesture == state = "draw"
        wasDrawingGesture == t.lastGestureState = "draw"
    IN  IF isDrawingGesture
        THEN IF ~wasDrawingGesture THEN startDrawing(t, indexTip)
             ELSE IF t.isDrawing THEN continueDrawing(t, indexTip)
             ELSE t
        ELSE IF ~isDrawingGesture /\ t.isDrawing THEN finishDrawing(t)
        ELSE t

\* this.lastGestureState = gestureState, skipped when handleGesture threw.
KeepGestureState(t, gestureState) ==
    IF t.threw THEN t ELSE [t EXCEPT !.lastGestureState = gestureState]

\* Mutant of onHandResults: a frame without a hand does not finish the stroke.
onHandResults_NoFinishOnLoss(t, landmarks) ==
    IF landmarks = NoHand
    THEN [t EXCEPT !.currentLandmarks = landmarks]
    ELSE KeepGestureState(
             handleGesture([t EXCEPT !.currentLandmarks = landmarks],
                           landmarks.gesture, landmarks.tip),
             landmarks.gesture)

onHandResults(t, landmarks) ==
    IF landmarks = NoHand
    THEN IF t.isDrawing
         THEN finishDrawing([t EXCEPT !.currentLandmarks = landmarks])
         ELSE [t EXCEPT !.currentLandmarks = landmarks]
    ELSE KeepGestureState(
             handleGesture([t EXCEPT !.currentLandmarks = landmarks],
                           landmarks.gesture, landmarks.tip),
             landmarks.gesture)

clearCanvas(t) ==
    updateAccuracyDisplay([t EXCEPT !.drawingPoints = <<>>, !.lastAccuracy = 0], 0)

startGame(t) ==
    hideFeedback([clearCanvas([t EXCEPT !.isPlaying = TRUE]) EXCEPT !.menuVisible = FALSE])

goToMenu(t) ==
    [clearCanvas([t EXCEPT !.isPlaying = FALSE]) EXCEPT !.menuVisible = TRUE]

\* Mutant of ShowLiveResult: the live accuracy is also kept as lastAccuracy.
ShowLiveResult_KeepsAccuracy(t) ==
    [t EXCEPT !.accuracyDisplay = t.result.circularity,
              !.lastAccuracy = t.result.circularity]

\* render once the analyzer has returned: the live accuracy is displayed.
ShowLiveResult(t) == updateAccuracyDisplay(t, t.result.circularity)

\* Mutant of render: the live analysis runs whatever the buffer holds.
render_NoGate(t) == ShowLiveResult(Analyze(t))

render(t) ==
    IF Len(t.drawingPoints) >= minPointsForCircle
    THEN ShowLiveResult(Analyze(t))
    ELSE t

(***************************************************************************)
(* The hand: the fingertip follows the outline of a circle of radius 5     *)
(* about (5, 5), one lattice position per frame at most.                   *)
(***************************************************************************)
Track ==
    << Point(10, 5), Point(10, 6), Point(10, 7), Point(9, 8), Point(8, 9), Point(7, 10),
       Point(6, 10), Point(5, 10), Point(4, 10), Point(3, 10), Point(2, 9), Point(1, 8),
       Point(0, 7), Point(0, 6), Point(0, 5), Point(0, 4), Point(0, 3), Point(1, 2),
       Point(2, 1), Point(3, 0), Point(4, 0), Point(5, 0), Point(6, 0), Point(7, 0),
       Point(8, 1), Point(9, 2), Point(10, 3), Point(10, 4) >>

TrackIndex(p) == CHOOSE i \in 1..Len(Track) : Track[i] = p

\* Where the fingertip can be in the next frame in which a hand is seen.
NextTips ==
    IF currentLandmarks = NoHand
    THEN {Track[i] : i \in 1..Len(Track)}
    ELSE LET i == TrackIndex(currentLandmarks.tip)
         IN  {Track[i], Track[(i % Len(Track)) + 1]}

(***************************************************************************)
(* The controller: one action per callback                                 *)
(***************************************************************************)
Init ==
    /\ isPlaying = FALSE
    /\ drawingPoints = <<>>
    /\ isDrawing = FALSE
    /\ lastAccuracy = 0
    /\ currentLandmarks = NoHand
    /\ lastGestureState = "null"
    /\ accuracyDisplay = 0
    /\ feedbackDisplay = ""
    /\ feedbackVisible = FALSE
    /\ menuVisible = TRUE
    /\ console = <<>>
    /\ threw = FALSE
    /\ points = <<>>
    /\ result = NoResult

\* The hand tracker delivers a frame with a hand in it.
HandFrame ==
    \E g \in Gestures, p \in NextTips :
        /\ Become(onHandResults(This, [gesture |-> g, tip |-> p]))
        /\ Len(drawingPoints') <= MaxPoints

\* The hand tracker delivers a frame without a hand.
NoHandFrame == Become(onHandResults(This, NoHand))

\* requestAnimationFrame runs animate, which renders.
Render == Become(render(This))

StartButton == Become(startGame(This))

ClearButton == Become(clearCanvas(This))

MenuButton == Become(goToMenu(This))

\* A timer set by showFeedback(message, duration) runs hideFeedback.
FeedbackTimer ==
    /\ feedbackVisible
    /\ Become(hideFeedback(This))

Next ==
    \/ HandFrame
    \/ NoHandFrame
    \/ Render
    \/ StartButton
    \/ ClearButton
    \/ MenuButton
    \/ FeedbackTimer

Spec == Init /\ [][Next]_vars

(***************************************************************************)
(* The analyzer alone, applied to bounded point sequences                  *)
(***************************************************************************)
Grid == {Point(x, y) : x \in 0..GridMax, y \in 0..GridMax}

\* Every sequence of at most MaxLen grid points.
IsGridInput(s) == \E l \in 0..MaxLen : s \in [1..l -> Grid]

\* One lattice point per 30-degree sector about (5, 5), far and near.
Outer ==
    << Point(10, 6), Point(9, 8), Point(6, 10), Point(4, 10), Point(2, 9), Point(0, 6),
       Point(0, 4), Point(1, 2), Point(4, 0), Point(6, 0), Point(8, 1), Point(10, 4) >>

Inner ==
    << Point(7, 6), Point(6, 6), Point(6, 7), Point(4, 7), Point(4, 6), Point(3, 6),
       Point(3, 4), Point(4, 4), Point(4, 3), Point(6, 3), Point(6, 4), Point(7, 4) >>

\* A stroke of l points around the spokes from spoke s on, the i-th point near
\* the centre when bit (i mod PatternPeriod) of m is set, closed on request.
SpokeStroke(s, l, m, closing) ==
    LET near(i) == (m \div (2 ^ ((i - 1) % PatternPeriod))) % 2 = 1
        at(i) == ((s + i - 1) % numSectors) + 1
        body == [i \in 1..l |-> IF near(i) THEN Inner[at(i)] ELSE Outer[at(i)]]
    IN  IF closing THEN Append(body, body[1]) ELSE body

IsSpokeInput(p) ==
    \E s \in 0..(numSectors - 1), l \in 2..MaxSpokes,
       m \in 0..(2 ^ PatternPeriod - 1), c \in BOOLEAN : p = SpokeStroke(s, l, m, c)

\* A grid input in which the fingertip dwells: its i-th point is sampled twice.
Dwell(s, i) == SubSeq(s, 1, i) \o SubSeq(s, i, Len(s))

IsDwellInput(p) ==
    \E l \in 1..MaxLen : \E s \in [1..l -> Grid], i \in 1..l : p = Dwell(s, i)

InitAnalyzer ==
    /\ isPlaying = FALSE
    /\ drawingPoints = <<>>
    /\ isDrawing = FALSE
    /\ lastAccuracy = 0
    /\ currentLandmarks = NoHand
    /\ lastGestureState = "null"
    /\ accuracyDisplay = 0
    /\ feedbackDisplay = ""
    /\ feedbackVisible = FALSE
    /\ menuVisible = TRUE
    /\ console = <<>>
    /\ threw = FALSE
    /\ \/ IsGridInput(points)
       \/ IsDwellInput(points)
       \/ IsSpokeInput(points)
    /\ result = NoResult

CallAnalyzer ==
    /\ result = NoResult
    /\ result' = calculateCircularity(points)
    /\ UNCHANGED <<isPlaying, drawingPoints, isDrawing, lastAccuracy, currentLandmarks,
                   lastGestureState, accuracyDisplay, feedbackDisplay, feedbackVisible,
                   menuVisible, console, threw, points>>

NextAnalyzer == CallAnalyzer

SpecAnalyzer == InitAnalyzer /\ [][NextAnalyzer]_vars

(***************************************************************************)
(* The analyzer alone, applied to strokes that extend shorter strokes      *)
(***************************************************************************)
InitExtend ==
    /\ isPlaying = FALSE
    /\ drawingPoints = <<>>
    /\ isDrawing = FALSE
    /\ lastAccuracy = 0
    /\ currentLandmarks = NoHand
    /\ lastGestureState = "null"
    /\ accuracyDisplay = 0
    /\ feedbackDisplay = ""
    /\ feedbackVisible = FALSE
    /\ menuVisible = TRUE
    /\ console = <<>>
    /\ threw = FALSE
    /\ \/ IsGridInput(points)
       \/ IsSpokeInput(points)
    /\ Len(points) >= 3
    /\ result = NoResult

SpecExtend == InitExtend /\ [][NextAnalyzer]_vars

(***************************************************************************)
(* The analyzer alone, applied to strokes around a circle                  *)
(***************************************************************************)
\* The whole pixels nearest to the 24 points, 15 degrees apart, of the circle
\* of radius 40 about (42, 42).
Ring ==
    << Point(82, 42), Point(81, 52), Point(77, 62), Point(70, 70), Point(62, 77), Point(52, 81),
       Point(42, 82), Point(32, 81), Point(22, 77), Point(14, 70), Point(7, 62), Point(3, 52),
       Point(2, 42), Point(3, 32), Point(7, 22), Point(14, 14), Point(22, 7), Point(32, 3),
       Point(42, 2), Point(52, 3), Point(62, 7), Point(70, 14), Point(77, 22), Point(81, 32) >>

\* A stroke around the ring from its s-th point on, laps times around, closed
\* on request by sampling its first point again.
RingStroke(s, laps, closing) ==
    LET body == [i \in 1..(24 * laps) |-> Ring[((s + i - 1) % 24) + 1]]
    IN  IF closing THEN Append(body, body[1]) ELSE body

IsRingInput(p) ==
    \E s \in 0..23, laps \in 1..MaxLaps, c \in BOOLEAN : p = RingStroke(s, laps, c)

InitRing ==
    /\ isPlaying = FALSE
    /\ drawingPoints = <<>>
    /\ isDrawing = FALSE
    /\ lastAccuracy = 0
    /\ currentLandmarks = NoHand
    /\ lastGestureState = "null"
    /\ accuracyDisplay = 0
    /\ feedbackDisplay = ""
    /\ feedbackVisible = FALSE
    /\ menuVisible = TRUE
    /\ console = <<>>
    /\ threw = FALSE
    /\ IsRingInput(points)
    /\ result = NoResult

SpecRing == InitRing /\ [][NextAnalyzer]_vars

(***************************************************************************)
(* The scoring of the analyzer alone, applied to bounded measures          *)
(***************************************************************************)
\* The measures are in result.locals, nothing being returned yet.
InitScore ==
    /\ isPlaying = FALSE
    /\ drawingPoints = <<>>
    /\ isDrawing = FALSE
    /\ lastAccuracy = 0
    /\ currentLandmarks = NoHand
    /\ lastGestureState = "null"
    /\ accuracyDisplay = 0
    /\ feedbackDisplay = ""
    /\ feedbackVisible = FALSE
    /\ menuVisible = TRUE
    /\ console = <<>>
    /\ threw = FALSE
    /\ points = <<>>
    /\ \E stdDev \in 0..UnitRadius, sectorsWithPoints \in 0..numSectors,
          distanceStartEnd \in 0..MaxGap :
          result = [NoResult EXCEPT !.locals = Derived(UnitRadius, stdDev,
                                                      sectorsWithPoints,
                                                      distanceStartEnd)]

CallScore ==
    /\ result.circularity = -1
    /\ result' = Score(result.locals)
    /\ UNCHANGED <<isPlaying, drawingPoints, isDrawing, lastAccuracy, currentLandmarks,
                   lastGestureState, accuracyDisplay, feedbackDisplay, feedbackVisible,
                   menuVisible, console, threw, points>>

NextScore == CallScore

SpecScore == InitScore /\ [][NextScore]_vars

(***************************************************************************)
(* Properties of the analyzer (checked under SpecAnalyzer)                 *)
(***************************************************************************)
Returned == result # NoResult

\* C1: for every point sequence, of any length, the circularity returned is a
\* whole number in 0..100; for two or more points angularScore, radiusPercent
\* and closurePercent are each within 0..100 and the circularity is the
\* weighted sum 0.5 / 0.3 / 0.2 of the three, rounded to the nearest integer.
C1_CircularityInRange ==
    Returned =>
        /\ result.circularity \in 0..100
        /\ Len(points) >= 2 =>
              LET f == result.locals
                  weighted10 == 5 * f.angularScore * RES + 3 * f.radiusPercent * RES
                                + 2 * f.closurePercent
              IN  /\ f.angularScore \in 0..100
                  /\ f.radiusPercent \in 0..100
                  /\ f.closurePercent \in 0..(100 * RES)
                  /\ 2 * weighted10 - 10 * RES < 20 * RES * result.circularity
                  /\ 20 * RES * result.circularity <= 2 * weighted10 + 10 * RES

\* C1 witness: an unclosed stroke whose first and last points are further
\* apart than the average radius (closurePercent clamped at 0) has been scored.
C1_Witness ==
    /\ Returned
    /\ Len(points) >= 2
    /\ result.locals.avgRadius > 0
    /\ result.locals.distanceStartEnd > result.locals.avgRadius
    /\ result.locals.closurePercent = 0
    /\ result.circularity > 0

\* C2: for two or more points isCircle is true exactly when angularScore >= 75,
\* radiusPercent >= 50 and the start-end distance is strictly less than 0.4 x
\* avgRadius; an angularScore of 74, or a distance equal to 0.4 x avgRadius,
\* gives isCircle = FALSE.
C2_IsCircleGates ==
    (Returned /\ Len(points) >= 2) =>
        LET f == result.locals
        IN  /\ result.isCircle <=>
                 (/\ f.angularScore >= 75
                  /\ f.radiusPercent >= 50
                  /\ 10 * f.distanceStartEnd < 4 * f.avgRadius)
            /\ f.angularScore = 74 => ~result.isCircle
            /\ 10 * f.distanceStartEnd = 4 * f.avgRadius => ~result.isCircle

\* C2 witness: a stroke that meets the angular and radius gates and scores 70
\* or more, but is not closed, has been scored (and is no circle).
C2_Witness ==
    /\ Returned
    /\ Len(points) >= 2
    /\ result.locals.angularScore >= 75
    /\ result.locals.radiusPercent >= 50
    /\ 10 * result.locals.distanceStartEnd >= 4 * result.locals.avgRadius
    /\ result.circularity >= 70
    /\ ~result.isCircle

\* The rows of the classification table, in order.
ShapeTable(isCircle, sectors, radiusPercent) ==
    LET angularScore == (200 * sectors + 12) \div 24
    IN  << <<isCircle, "Circle">>,
           <<sectors <= 4 /\ radiusPercent >= 40, "Square">>,
           <<sectors <= 3 /\ radiusPercent >= 35, "Triangle">>,
           <<angularScore >= 60 /\ radiusPercent < 45, "Oval/Ellipse">>,
           <<angularScore >= 50 /\ radiusPercent < 40, "Rectangle">>,
           <<angularScore < 40, "Polygon">>,
           <<TRUE, "Irregular Shape">> >>

FirstMatch(table) ==
    table[CHOOSE i \in 1..Len(table) :
              table[i][1] /\ \A j \in 1..(i - 1) : ~table[j][1]][2]

\* C3: shapeName is the label of the first matching row of the ordered table
\* over isCircle, the occupied-sector count and radiusPercent; it is "Circle"
\* exactly when isCircle is true, a non-circle with at most 4 occupied sectors
\* and radiusPercent >= 40 is "Square", and "Unknown" is returned only for
\* fewer than 2 points.
C3_ShapeTable ==
    Returned =>
        /\ result.shapeName = "Unknown" => Len(points) < 2
        /\ Len(points) >= 2 =>
              LET f == result.locals
              IN  /\ f.sectorsWithPoints \in 0..12
                  /\ f.angularScore = (200 * f.sectorsWithPoints + 12) \div 24
                  /\ result.shapeName =
                        FirstMatch(ShapeTable(result.isCircle, f.sectorsWithPoints,
                                              f.radiusPercent))
                  /\ result.shapeName = "Circle" <=> result.isCircle
                  /\ (~result.isCircle /\ f.sectorsWithPoints <= 4 /\ f.radiusPercent >= 40)
                        => result.shapeName = "Square"

\* C3 witness: a non-circle that matches both the Square row and the Triangle
\* row (at most 3 occupied sectors, radiusPercent >= 40) has been classified.
C3_Witness ==
    /\ Returned
    /\ Len(points) >= 2
    /\ ~result.isCircle
    /\ result.locals.sectorsWithPoints <= 3
    /\ result.locals.radiusPercent >= 40
    /\ result.shapeName = "Square"

\* C8: for a point sequence of length 0 or 1 the analyzer returns the
\* degenerate score: circularity 0, isCircle FALSE, shapeName "Unknown" and
\* the draw-bigger feedback, with no centroid, radius or sector computed.
C8_DegenerateScore ==
    (Returned /\ Len(points) < 2) =>
        /\ result.circularity = 0
        /\ result.isCircle = FALSE
        /\ result.shapeName = "Unknown"
        /\ result.feedback = "Draw a bigger circle!"
        /\ result.locals = NoLocals

\* C8 witness: a single point has been scored.
C8_Witness == Returned /\ Len(points) = 1 /\ result.circularity = 0

Coincident(s) == \A i \in 1..Len(s) : s[i] = s[1]

\* C9: for two or more coincident points (avgRadius = 0) the analyzer returns
\* a defined score: radiusPercent 0, closurePercent 0, not closed, isCircle
\* FALSE, the close-your-shape feedback and a circularity in 0..100.
C9_CoincidentPoints ==
    (Returned /\ Len(points) >= 2 /\ Coincident(points)) =>
        LET f == result.locals
        IN  /\ f.avgRadius = 0
            /\ f.radiusPercent = 0
            /\ f.closurePercent = 0
            /\ ~f.isClosed
            /\ result.isCircle = FALSE
            /\ result.feedback = "Close your shape to make a circle!"
            /\ result.circularity \in 0..100

\* C9 witness: three coincident points have been scored.
C9_Witness == Returned /\ Len(points) = 3 /\ Coincident(points)

Praise == {"PERFECT CIRCLE!", "Excellent!", "Good Circle", "Not bad!"}

\* C11: the feedback follows an ordered chain: a stroke that is not closed
\* gets the close-your-shape prompt whatever its combined score; a closed
\* stroke that is not a circle gets the message naming its shapeName, which is
\* then not "Circle"; and only a stroke with isCircle = TRUE gets a score-banded
\* message, the band being that of its combined score (>= 90, 80, 70, 60).
C11_FeedbackChain ==
    (Returned /\ Len(points) >= 2) =>
        LET f == result.locals
        IN  /\ ~f.isClosed => result.feedback = "Close your shape to make a circle!"
            /\ (f.isClosed /\ ~result.isCircle) =>
                  /\ result.shapeName # "Circle"
                  /\ result.feedback = NotACircle(result.shapeName)
                  /\ result.feedback # "Not a circle! This looks more like a Circle"
                  /\ result.feedback # "Not a circle! This looks more like a Unknown"
            /\ result.feedback \in Praise => result.isCircle
            /\ (result.isCircle /\ result.circularity >= 90)
                  => result.feedback = "PERFECT CIRCLE!"
            /\ (result.isCircle /\ result.circularity \in 80..89)
                  => result.feedback = "Excellent!"
            /\ (result.isCircle /\ result.circularity \in 70..79)
                  => result.feedback = "Good Circle"
            /\ (result.isCircle /\ result.circularity \in 60..69)
                  => result.feedback = "Not bad!"

\* C11 witness: a closed stroke that scores 60 or more without being a circle
\* has been told the shape it looks like.
C11_Witness ==
    /\ Returned
    /\ Len(points) >= 2
    /\ result.locals.isClosed
    /\ ~result.isCircle
    /\ result.circularity >= 60
    /\ result.feedback = NotACircle(result.shapeName)

\* C15: whenever isCircle is returned TRUE the combined score is at least 60,
\* so a circle gets one of the four praise messages, and the two trailing
\* feedbacks ("Try to make it more circular", "Keep practicing!") are
\* returned for no input.  Checked under SpecScore.
C15_CircleScoresSixty ==
    result.circularity >= 0 =>
        /\ result.isCircle => (result.circularity >= 60 /\ result.feedback \in Praise)
        /\ result.feedback # "Try to make it more circular"
        /\ result.feedback # "Keep practicing!"

\* C15 witness: measures that just pass the three gates (angularScore 75,
\* radiusPercent 50, start-end distance just under 0.4 x avgRadius) have been
\* scored: a circle, below 70, told "Not bad!".
C15_Witness ==
    /\ result.circularity >= 0
    /\ result.isCircle
    /\ result.locals.angularScore = 75
    /\ result.locals.radiusPercent = 50
    /\ 10 * result.locals.distanceStartEnd >= 4 * result.locals.avgRadius - 10
    /\ result.circularity < 70
    /\ result.feedback = "Not bad!"

\* The score of the first k points of the analyzed sequence.
ScoreOfPrefix(k) == calculateCircularity(SubSeq(points, 1, k))

\* C12 as stated: whenever the analyzed sequence extends a sequence S of two
\* or more points by appended points, with a larger spread of the radii
\* (variance, compared through stdDev) and the same occupied-sector count, its
\* circularity is at most that of S.  Checked under SpecExtend.
C12_MonotoneAsStated ==
    Returned =>
        \A k \in 2..(Len(points) - 1) :
            LET s == ScoreOfPrefix(k)
            IN  (/\ result.locals.stdDev > s.locals.stdDev
                 /\ result.locals.sectorsWithPoints = s.locals.sectorsWithPoints)
                => result.circularity <= s.circularity

\* C12, amended: whenever the analyzed sequence extends a sequence S of two or
\* more points with a larger spread of the radii and the same occupied-sector
\* count, and neither radiusPercent nor closurePercent is larger than for S,
\* its circularity is at most that of S.  Checked under SpecExtend.
C12_Monotone ==
    Returned =>
        \A k \in 2..(Len(points) - 1) :
            LET s == ScoreOfPrefix(k)
            IN  (/\ result.locals.stdDev > s.locals.stdDev
                 /\ result.locals.sectorsWithPoints = s.locals.sectorsWithPoints
                 /\ result.locals.radiusPercent <= s.locals.radiusPercent
                 /\ result.locals.closurePercent <= s.locals.closurePercent)
                => result.circularity <= s.circularity

\* C12 witness: a sequence has been scored strictly lower than the sequence
\* of its points but the last, which has the same occupied sectors, a smaller
\* spread of radii, a larger radiusPercent and a larger closurePercent.
C12_Witness ==
    /\ Returned
    /\ Len(points) >= 3
    /\ LET s == ScoreOfPrefix(Len(points) - 1)
       IN  /\ result.locals.stdDev > s.locals.stdDev
           /\ result.locals.sectorsWithPoints = s.locals.sectorsWithPoints
           /\ result.locals.radiusPercent < s.locals.radiusPercent
           /\ result.locals.closurePercent < s.locals.closurePercent
           /\ result.circularity < s.circularity

\* A stroke of 24 points or more, one per 15 degrees of the ring, whose last
\* point is its first point.
ClosedRing(s) == Len(s) >= 24 /\ s[Len(s)] = s[1] /\ IsRingInput(s)

\* C13 as stated: a closed stroke of 24 points or more, one per 15 degrees of
\* a circle, scores angularScore 100, radiusPercent 100, closed, isCircle,
\* circularity >= 90, shapeName "Circle" and the top praise.  Checked under
\* SpecRing.
C13_PerfectCircleAsStated ==
    (Returned /\ ClosedRing(points)) =>
        /\ result.locals.angularScore = 100
        /\ result.locals.radiusPercent = 100
        /\ result.locals.isClosed
        /\ result.isCircle
        /\ result.circularity >= 90
        /\ result.shapeName = "Circle"
        /\ result.feedback = "PERFECT CIRCLE!"

\* C13, amended: such a stroke is closed with closurePercent 100, is a circle
\* named "Circle", scores 90 or more and gets the top praise; its angularScore
\* is 92 or 100 and its radiusPercent is at least 97, the first point, sampled
\* twice, drawing the centroid off the centre of the circle.  Checked under
\* SpecRing.
C13_PerfectCircle ==
    (Returned /\ ClosedRing(points)) =>
        /\ result.locals.angularScore \in {92, 100}
        /\ result.locals.radiusPercent >= 97
        /\ result.locals.isClosed
        /\ result.locals.closurePercent = 100 * RES
        /\ result.isCircle
        /\ result.circularity >= 90
        /\ result.shapeName = "Circle"
        /\ result.feedback = "PERFECT CIRCLE!"

\* C13 witness: one closed lap of the ring has been scored, with eleven
\* sectors counted and a radiusPercent short of 100.
C13_Witness ==
    /\ Returned
    /\ ClosedRing(points)
    /\ Len(points) = 25
    /\ result.locals.sectorsWithPoints = 11
    /\ result.locals.radiusPercent < 100
    /\ result.isCircle

(***************************************************************************)
(* Properties of the controller (checked under Spec)                       *)
(***************************************************************************)
Last(s) == s[Len(s)]

Finished(log) == \E i \in 1..Len(log) : log[i] = "Drawing finished. Points:"

\* C4: while the game is playing, a frame with gesture "draw" whose preceding
\* frame was not a draw frame (another gesture, or no hand) starts a new
\* stroke: isDrawing becomes TRUE and the buffer is exactly the fingertip.
C4_DrawTransitionStartsStroke ==
    [][(/\ currentLandmarks'.gesture = "draw"
        /\ currentLandmarks.gesture # "draw"
        /\ isPlaying)
       => (isDrawing' /\ drawingPoints' = <<currentLandmarks'.tip>>)]_vars

\* C5: a frame with no hand or with a gesture other than "draw" that arrives
\* during a stroke finalizes it in that frame, finishDrawing running once;
\* such a frame outside a stroke finalizes nothing; once a stroke is
\* finalized no frame appends to its buffer, and the next stroke's buffer is
\* exactly its own first point.
C5_StrokeFinalizedOnce ==
    [][/\ (isDrawing /\ currentLandmarks'.gesture # "draw")
          => /\ ~isDrawing'
             /\ Cardinality({i \in 1..Len(console') :
                                console'[i] = "Drawing finished. Points:"}) = 1
             /\ feedbackVisible'
             /\ drawingPoints' = drawingPoints
       /\ ~isDrawing
          => /\ ~Finished(console')
             /\ \/ drawingPoints' = drawingPoints
                \/ drawingPoints' = <<>>
                \/ /\ isDrawing'
                   /\ currentLandmarks'.gesture = "draw"
                   /\ drawingPoints' = <<currentLandmarks'.tip>>
       /\ (~isDrawing /\ isDrawing')
          => drawingPoints' = <<currentLandmarks'.tip>>]_vars

\* C5 witness: a frame without a hand has just finalized a stroke of
\* minPointsForCircle points or more.
C5_Witness ==
    /\ ~isDrawing
    /\ currentLandmarks = NoHand
    /\ Finished(console)
    /\ Len(drawingPoints) >= minPointsForCircle
    /\ feedbackDisplay = result.feedback

\* C6: the analyzer is never called on fewer than 15 points; finalizing a
\* stroke of fewer than 15 points shows the draw-bigger message and leaves
\* lastAccuracy unchanged; finalizing one of 15 or more sets lastAccuracy to
\* the circularity of the whole buffer.
C6_AnalyzerNeedsMinPoints ==
    /\ [](result # NoResult => (Len(points) >= 15 /\ points = drawingPoints))
    /\ [][(isDrawing /\ ~isDrawing')
          => IF Len(drawingPoints) < 15
             THEN /\ result' = NoResult
                  /\ feedbackDisplay' = "Draw a bigger shape!"
                  /\ feedbackVisible'
                  /\ UNCHANGED <<lastAccuracy, accuracyDisplay, drawingPoints>>
             ELSE /\ points' = drawingPoints
                  /\ result' = calculateCircularity(drawingPoints)
                  /\ lastAccuracy' = result'.circularity
                  /\ UNCHANGED drawingPoints]_vars

\* C6 witness: a stroke of fewer than 15 points has just been finalized with
\* the draw-bigger message, the accuracy of an earlier stroke still recorded.
C6_Witness ==
    /\ ~isDrawing
    /\ Finished(console)
    /\ drawingPoints # <<>>
    /\ Len(drawingPoints) < 15
    /\ feedbackDisplay = "Draw a bigger shape!"
    /\ result = NoResult
    /\ lastAccuracy > 0

\* C7: consecutive points of the stroke buffer are never closer than
\* STROKE.MIN_POINT_DISTANCE.
C7_BufferSpacing ==
    \A i \in 1..(Len(drawingPoints) - 1) :
        Dist2(drawingPoints[i], drawingPoints[i + 1])
            >= MIN_POINT_DISTANCE * MIN_POINT_DISTANCE

\* C7 witness: during a stroke the fingertip has moved off the last appended
\* point by less than the minimum distance, and was not appended.
C7_Witness ==
    /\ isDrawing
    /\ Len(drawingPoints) >= 2
    /\ currentLandmarks # NoHand
    /\ currentLandmarks.gesture = "draw"
    /\ currentLandmarks.tip # Last(drawingPoints)
    /\ Dist2(currentLandmarks.tip, Last(drawingPoints))
          < MIN_POINT_DISTANCE * MIN_POINT_DISTANCE

C14_StrokeBufferNonEmpty ==
    /\ isDrawing => drawingPoints # <<>>
    /\ ~threw

=============================================================================
